---- MODULE Spec2Model ----
(***************************************************************************)
(* MetinFishingCV: the timed state machine of FishingBot (FishingBot.py),  *)
(* fed by the frame loop FishingBot.run with the feature tuple computed by *)
(* FishingVision.get_fishing_state (FishingDetection.py).                  *)
(*                                                                         *)
(* Time.  time.time() is the whole-second reading of the wall clock.  A    *)
(* sleep of d seconds advances the reading by floor(d) or ceil(d): a       *)
(* sub-second sleep by 0 or 1, sleep(uniform(1.5, 3)) by 1..3.  The code   *)
(* only ever compares and adds clock readings, so its behaviour does not   *)
(* depend on the origin of the clock: the variables keep every time stamp  *)
(* as an offset from the current reading (end_time = 3: the deadline is 3  *)
(* seconds ahead; end_time = -1: it passed a second ago).  Inside a step   *)
(* the code is evaluated on a record whose field `now` starts at 0.        *)
(*                                                                         *)
(* Coordinates.  The click position x + w/2 is a Python float; the model   *)
(* keeps positions sent to the mouse in half pixels (2*x + w).             *)
(***************************************************************************)
EXTENDS Integers, Sequences, FiniteSets, TLC

\* ------------------------------------------------------------------ bounds

\* The clock runs at most MaxLate seconds past the deadline of the current
\* state before the next call of on_process.
MaxLate == 2

\* get_image_template is run with at most MaxScales scales.
MaxScales == 3

\* No click is sent once clicks_sent has reached MaxClicks.
MaxClicks == 4

\* The age of the last click is kept up to ClickHorizon seconds.
ClickHorizon == 2

\* The frame loop captures at most MaxFrames frames before the capture fails.
MaxFrames == 2

\* ------------------------------------------------------- program constants

\* FishingBot.__init__: max_timeout_sec of the three State objects.
PULLING_ROD_TIMEOUT == 4
SEARCHING_FISH_TIMEOUT == 15
WAIT_AFTER_CLICK_TIMEOUT == 1

\* change_state: strikes needed for a caught fish.
STRIKES_FOR_CATCH == 3

\* FishingVision.GAME_THRESHOLD = 0.7, in hundredths.
GAME_THRESHOLD == 70
\* FishingVision.BORDER_OFFSET, BORDER_OFFSET_TITLE, GRAB_THRESHOLD_SUM.
BORDER_OFFSET == 10
BORDER_OFFSET_TITLE == 28
GRAB_THRESHOLD_SUM == 40000
\* cv2.inRange marks a pixel inside the range with 255.
MASK_ON == 255

States == {"PULLING_ROD", "SEARCHING_FISH", "WAIT_AFTER_CLICK"}

time_out_delay(s) ==
    CASE s = "PULLING_ROD" -> PULLING_ROD_TIMEOUT
      [] s = "SEARCHING_FISH" -> SEARCHING_FISH_TIMEOUT
      [] s = "WAIT_AFTER_CLICK" -> WAIT_AFTER_CLICK_TIMEOUT

\* ------------------------------------------------------------------- state

VARIABLES
    fast,           \* self.__fast
    image_data,     \* self.image_data, the slot shared by run and on_process
    current_state,  \* self.__current_state.state
    end_time,       \* self.__current_state.end_time, as an offset from now
    fish_striked,   \* self.__fish_striked
    fish_caught,    \* self.__stats["fish_caught"]
    clicks_sent,    \* self.__stats["clicks_sent"]
    entered,        \* history: when current_state was last entered, as an offset from now
    out,            \* history: calls on the interaction handler made by the last step
    last,           \* history: the last step taken
    clicked,        \* history: when the last click was sent, as an offset from now
    held,           \* the mouse button and the keys the handler has pressed and not released
    run_bot,        \* self.__run_bot
    data_lock,      \* self.data_lock: "free", or the loop that holds it
    pc_run,         \* where the frame loop of run is
    result,         \* run: the dict built from the locals x, y, w, h, ... of this frame
    pc_thread,      \* where the loop of thread_run is
    tick_data,      \* on_process: the local `data`
    frames,         \* history: the number of completed runs of get_fishing_state
    slot_run,       \* history: the run whose result image_data holds (0: none)
    data_run,       \* history: the run whose result tick_data holds (0: none)
    v_pc,           \* vision runs: where the construction and the frame loop are
    v_cfg,          \* vision runs: the arguments of FishingVision.__init__ and the template
    v_in,           \* vision runs: the frame returned by get_screenshot
    v_out           \* vision runs: what the processing of the frame left

\* The variables of the statement-level loops; the specification Spec, which
\* takes every handler as one step, leaves them as they start.
cvars == <<run_bot, data_lock, pc_run, result, pc_thread, tick_data, frames,
           slot_run, data_run>>

\* The variables of the runs of the vision on single frames; the
\* specifications of the bot leave them as they start.
vvars == <<v_pc, v_cfg, v_in, v_out>>

vars == <<fast, image_data, current_state, end_time, fish_striked,
          fish_caught, clicks_sent, entered, out, last, clicked, held, cvars,
          vvars>>

\* ------------------------------------------------------------------ vision

\* What the cv2 primitives return on a frame: the best template match
\* (location and correlation in hundredths), the number of pixels inside the
\* grab colour range, and the outcome of detect_object_color for the fish.
NotFound == [found |-> FALSE, x |-> 0, y |-> 0, w |-> 0, h |-> 0]
Box(bx, by, bw, bh) == [found |-> TRUE, x |-> bx, y |-> by, w |-> bw, h |-> bh]

Frames ==
    [mx : {2}, my : {1}, corr : {70, 71},
     px_count : {156, 157},
     det : {NotFound, Box(0, 0, 1, 2), Box(1, 3, 2, 1)}]

\* The capture origin returned by get_screenshot with the frame.
Origins == {<<3, 2>>}

\* Mutant: the title offset is added to x as well.
get_game_template_crop_title_on_x(f) ==
    [x |-> f.mx + BORDER_OFFSET + BORDER_OFFSET_TITLE,
     y |-> f.my + BORDER_OFFSET + BORDER_OFFSET_TITLE,
     corr |-> f.corr]

get_game_template_crop(f) ==
    [x |-> f.mx + BORDER_OFFSET,
     y |-> f.my + BORDER_OFFSET + BORDER_OFFSET_TITLE,
     corr |-> f.corr]

\* np.sum over the 0/255 mask of cv2.inRange.
get_circle_fishable_px_count(f) == MASK_ON * f.px_count

\* detect_object_color raises ValueError when no contour is found.
get_fish_pos(f) ==
    IF f.det.found
    THEN [x |-> f.det.x, y |-> f.det.y, w |-> f.det.w, h |-> f.det.h, found |-> TRUE]
    ELSE [x |-> 0, y |-> 0, w |-> 0, h |-> 0, found |-> FALSE]

\* Mutant: a correlation equal to GAME_THRESHOLD passes the gate.
get_fishing_state_at_threshold(f) ==
    LET crop == get_game_template_crop(f)
        fishable_confidence == get_circle_fishable_px_count(f)
        fish == get_fish_pos(f)
    IN  IF crop.corr >= GAME_THRESHOLD
        THEN [x |-> fish.x + crop.x, y |-> fish.y + crop.y,
              w |-> fish.w, h |-> fish.h,
              fishable |-> fishable_confidence > GRAB_THRESHOLD_SUM,
              fish_detectable |-> fish.found,
              game_on |-> TRUE]
        ELSE [x |-> 0, y |-> 0, w |-> 0, h |-> 0,
              fishable |-> FALSE, fish_detectable |-> FALSE, game_on |-> FALSE]

get_fishing_state(f) ==
    LET crop == get_game_template_crop(f)
        fishable_confidence == get_circle_fishable_px_count(f)
        fish == get_fish_pos(f)
    IN  IF crop.corr > GAME_THRESHOLD
        THEN [x |-> fish.x + crop.x, y |-> fish.y + crop.y,
              w |-> fish.w, h |-> fish.h,
              fishable |-> fishable_confidence > GRAB_THRESHOLD_SUM,
              fish_detectable |-> fish.found,
              game_on |-> TRUE]
        ELSE [x |-> 0, y |-> 0, w |-> 0, h |-> 0,
              fishable |-> FALSE, fish_detectable |-> FALSE, game_on |-> FALSE]

\* run: the dict stored in self.image_data for a processed frame.
store_data(f, origin) ==
    LET r == get_fishing_state(f)
    IN  [r EXCEPT !.x = @ + origin[1], !.y = @ + origin[2]]

\* Mutant: the initial dict describes a fish that can be clicked.
default_data_qualifies ==
    [x |-> 0, y |-> 0, w |-> 0, h |-> 0,
     fishable |-> TRUE, fish_detectable |-> TRUE, game_on |-> TRUE]

\* run: the initial self.image_data.
default_data ==
    [x |-> 0, y |-> 0, w |-> 0, h |-> 0,
     fishable |-> FALSE, fish_detectable |-> FALSE, game_on |-> FALSE]

\* ----------------------------------------------------- interaction handler

MouseMove(x2, y2) == [call |-> "send_mouse_move", key |-> "", x2 |-> x2, y2 |-> y2]
LeftClick == [call |-> "send_mouse_left_click", key |-> "", x2 |-> 0, y2 |-> 0]
KeyPress(k) == [call |-> "send_key_press", key |-> k, x2 |-> 0, y2 |-> 0]

\* What the handler sends to the devices: the methods every handler class
\* implements, and the random delay between two of them.
send_mouse_left_down == [ev |-> "down", input |-> "mouse_left"]
send_mouse_left_up == [ev |-> "up", input |-> "mouse_left"]
send_key_down(key) == [ev |-> "down", input |-> key]
send_key_up(key) == [ev |-> "up", input |-> key]
send_mouse_move(x2, y2) == [ev |-> "move", input |-> "mouse"]
sleep_random_delay == [ev |-> "sleep", input |-> ""]

\* InteractionHandlerInterface.send_key_press, as the events it sends.
send_key_press(key) == <<send_key_down(key), sleep_random_delay, send_key_up(key)>>

\* InteractionHandlerInterface.send_mouse_left_click, as the events it sends:
\* the second call is send_mouse_left_down again.
send_mouse_left_click ==
    <<send_mouse_left_down, sleep_random_delay, send_mouse_left_down>>

\* The events of one call on the handler.
sub_events(c) ==
    CASE c.call = "send_mouse_move" -> <<send_mouse_move(c.x2, c.y2)>>
      [] c.call = "send_mouse_left_click" -> send_mouse_left_click
      [] c.call = "send_key_press" -> send_key_press(c.key)
      [] OTHER -> <<>>

\* The inputs held down once the events evs have reached the devices.
RECURSIVE held_after(_, _)
held_after(h, evs) ==
    IF evs = <<>>
    THEN h
    ELSE LET e == Head(evs)
         IN  held_after(CASE e.ev = "down" -> h \cup {e.input}
                          [] e.ev = "up" -> h \ {e.input}
                          [] OTHER -> h,
                        Tail(evs))

\* -------------------------------------------------------------- the bot

\* The fields of the FishingBot object a decision tick reads and writes.
Self ==
    [now |-> 0, current_state |-> current_state, end_time |-> end_time,
     fish_striked |-> fish_striked, fish_caught |-> fish_caught,
     clicks_sent |-> clicks_sent, entered |-> entered, out |-> out,
     clicked |-> clicked, held |-> held]

\* The delays a tick may sleep: the sub-second waits (key presses, the short
\* sleep, the click) and sleep(random.uniform(1.5, 3)).
Delays == [short : 0..1, long : 1..3, click : 0..1]

sleep(m, d) == [m EXCEPT !.now = @ + d]

\* A call on the handler: the call is recorded and its events reach the devices.
call(m, c) ==
    [m EXCEPT !.out = Append(@, c), !.held = held_after(@, sub_events(c))]

\* Mutant: entering a state does not restart its deadline.
start_keeps_deadline(m) == m

\* State.start, on the State object that is current.  The end_time of a State
\* object that is not current is never read: change_state calls start on the
\* State it makes current, so one field holds the deadline.
start(m) ==
    [m EXCEPT !.end_time = m.now + time_out_delay(m.current_state)]

\* Mutant: the deadline counts as passed at the very second it names.
is_time_up_at_deadline(m) == m.now >= m.end_time

\* State.is_time_up, on the State object that is current.
is_time_up(m) == m.now > m.end_time

\* Mutant: a catch needs more than three strikes.
change_state_more_than_three(m, state) ==
    LET m1 == IF state = "PULLING_ROD"
              THEN [m EXCEPT !.fish_caught =
                                 IF m.fish_striked > STRIKES_FOR_CATCH THEN @ + 1 ELSE @,
                             !.fish_striked = 0]
              ELSE m
        m2 == [m1 EXCEPT !.current_state = state, !.entered = m.now]
    IN  start(m2)

\* Mutant: fish_striked is reset only when a fish is caught.
change_state_reset_on_catch(m, state) ==
    LET m1 == IF state = "PULLING_ROD" /\ m.fish_striked >= STRIKES_FOR_CATCH
              THEN [m EXCEPT !.fish_caught = @ + 1, !.fish_striked = 0]
              ELSE m
        m2 == [m1 EXCEPT !.current_state = state, !.entered = m.now]
    IN  start(m2)

\* Mutant: three strikes are credited on every change of state.
change_state_credit_any_state(m, state) ==
    LET m1 == [m EXCEPT !.fish_caught =
                            IF m.fish_striked >= STRIKES_FOR_CATCH THEN @ + 1 ELSE @,
                        !.fish_striked =
                            IF state = "PULLING_ROD" THEN 0 ELSE @]
        m2 == [m1 EXCEPT !.current_state = state, !.entered = m.now]
    IN  start(m2)

\* Mutant: every entry into PULLING_ROD that follows a strike is credited.
change_state_credit_one_strike(m, state) ==
    LET m1 == IF state = "PULLING_ROD"
              THEN [m EXCEPT !.fish_caught =
                                 IF m.fish_striked >= 1 THEN @ + 1 ELSE @,
                             !.fish_striked = 0]
              ELSE m
        m2 == [m1 EXCEPT !.current_state = state, !.entered = m.now]
    IN  start(m2)

change_state(m, state) ==
    LET m1 == IF state = "PULLING_ROD"
              THEN [m EXCEPT !.fish_caught =
                                 IF m.fish_striked >= STRIKES_FOR_CATCH THEN @ + 1 ELSE @,
                             !.fish_striked = 0]
              ELSE m
        m2 == [m1 EXCEPT !.current_state = state, !.entered = m.now]
    IN  start(m2)

send_start_fishing(m) == call(m, KeyPress("space"))

send_put_bait(m) == call(m, KeyPress("1"))

\* Mutant: integer division, x + w//2 and y + h//2.
click_pos_floor_div(data) ==
    <<2 * (data.x + data.w \div 2), 2 * (data.y + data.h \div 2)>>

\* The position is x + w/2, y + h/2, kept in half pixels.
click_pos(data) == <<2 * data.x + data.w, 2 * data.y + data.h>>

\* Mutant: the click is counted as a strike and not in the statistics.
send_fish_click_uncounted(m, pos, d) ==
    LET m1 == call(m, MouseMove(pos[1], pos[2]))
        m2 == [m1 EXCEPT !.fish_striked = @ + 1]
        m3 == [call(m2, LeftClick) EXCEPT !.clicked = m.now]
    IN  sleep(m3, d.click)

send_fish_click(m, pos, d) ==
    LET m1 == call(m, MouseMove(pos[1], pos[2]))
        m2 == [m1 EXCEPT !.fish_striked = @ + 1, !.clicks_sent = @ + 1]
        m3 == [call(m2, LeftClick) EXCEPT !.clicked = m.now]
    IN  sleep(m3, d.click)

\* Mutant: a detected game sends the machine to the cool-down state.
state_pulling_rod_to_wait(m, data) ==
    IF data.game_on THEN change_state(m, "WAIT_AFTER_CLICK") ELSE m

state_pulling_rod(m, data) ==
    IF data.game_on THEN change_state(m, "SEARCHING_FISH") ELSE m

\* Mutant: the check of game_on is missing.
state_searching_fish_no_abort(m, data, d) ==
    IF data.fish_detectable /\ data.fishable
    THEN change_state(send_fish_click(m, click_pos(data), d), "WAIT_AFTER_CLICK")
    ELSE m

\* Mutant: the click is sent when fish_detectable or fishable holds.
state_searching_fish_either_flag(m, data, d) ==
    IF ~data.game_on
    THEN change_state(m, "PULLING_ROD")
    ELSE IF data.fish_detectable \/ data.fishable
         THEN change_state(send_fish_click(m, click_pos(data), d), "WAIT_AFTER_CLICK")
         ELSE m

state_searching_fish(m, data, d) ==
    IF ~data.game_on
    THEN change_state(m, "PULLING_ROD")
    ELSE IF data.fish_detectable /\ data.fishable
         THEN change_state(send_fish_click(m, click_pos(data), d), "WAIT_AFTER_CLICK")
         ELSE m

\* Mutant: the change of state is missing.
state_putting_bait_stays(m, d) ==
    LET m1 == send_put_bait(m)
        m2 == sleep(m1, d.short)
        m3 == send_start_fishing(m2)
    IN  sleep(m3, d.long)

state_putting_bait(m, d) ==
    LET m1 == send_put_bait(m)
        m2 == sleep(m1, d.short)
        m3 == send_start_fishing(m2)
        m4 == change_state(m3, "SEARCHING_FISH")
    IN  sleep(m4, d.long)

\* Mutant: WAIT_AFTER_CLICK is given the action of SEARCHING_FISH.
execute_action_no_cool_down(m, data, d) ==
    CASE m.current_state = "PULLING_ROD" -> state_pulling_rod(m, data)
      [] m.current_state = "SEARCHING_FISH" -> state_searching_fish(m, data, d)
      [] m.current_state = "WAIT_AFTER_CLICK" -> state_searching_fish(m, data, d)

\* State.execute_action with the action given to each State in __init__.
execute_action(m, data, d) ==
    CASE m.current_state = "PULLING_ROD" -> state_pulling_rod(m, data)
      [] m.current_state = "SEARCHING_FISH" -> state_searching_fish(m, data, d)
      [] m.current_state = "WAIT_AFTER_CLICK" -> m

\* Mutant: WAIT_AFTER_CLICK is given no on_time_out (the default lambda: None).
execute_on_timeout_no_exit(m, d) ==
    CASE m.current_state = "PULLING_ROD" -> state_putting_bait(m, d)
      [] m.current_state = "SEARCHING_FISH" -> change_state(m, "PULLING_ROD")
      [] m.current_state = "WAIT_AFTER_CLICK" -> m

\* State.execute_on_timeout with the on_time_out given to each State in __init__.
execute_on_timeout(m, d) ==
    CASE m.current_state = "PULLING_ROD" -> state_putting_bait(m, d)
      [] m.current_state = "SEARCHING_FISH" -> change_state(m, "PULLING_ROD")
      [] m.current_state = "WAIT_AFTER_CLICK" -> change_state(m, "SEARCHING_FISH")

on_process(m, data, d) ==
    IF is_time_up(m)
    THEN execute_on_timeout(m, d)
    ELSE execute_action(m, data, d)

\* ----------------------------------------------------------------- actions

Init ==
    /\ fast \in BOOLEAN
    /\ image_data = default_data
    /\ current_state = "PULLING_ROD"
    /\ end_time = time_out_delay("PULLING_ROD")
    /\ fish_striked = 0
    /\ fish_caught = 0
    /\ clicks_sent = 0
    /\ entered = 0
    /\ out = <<>>
    /\ last = [op |-> "init", from |-> "PULLING_ROD", timed_out |-> FALSE]
    /\ clicked = -ClickHorizon
    /\ held = {}
    /\ run_bot = TRUE
    /\ data_lock = "free"
    /\ pc_run = "capture"
    /\ result = default_data
    /\ pc_thread = IF fast THEN "none" ELSE "acquire"
    /\ tick_data = default_data
    /\ frames = 0
    /\ slot_run = 0
    /\ data_run = 0
    /\ v_pc = "off"
    /\ v_cfg = <<>>
    /\ v_in = <<>>
    /\ v_out = <<>>

\* The time stamp t, d seconds later.
Older(t, d) == IF t - d < -ClickHorizon THEN -ClickHorizon ELSE t - d

\* The variables a decision tick leaves as m, the time stamps taken as
\* offsets from the clock reading m.now at which the tick ends.
Commit(m) ==
    /\ current_state' = m.current_state
    /\ end_time' = m.end_time - m.now
    /\ fish_striked' = m.fish_striked
    /\ fish_caught' = m.fish_caught
    /\ clicks_sent' = m.clicks_sent
    /\ entered' = m.entered - m.now
    /\ out' = m.out
    /\ clicked' = Older(m.clicked, m.now)
    /\ held' = m.held

\* One call of on_process against the snapshot `data`.
Tick(data) ==
    /\ \E m \in {on_process([Self EXCEPT !.out = <<>>], data, d) : d \in Delays} :
            /\ m.clicks_sent <= MaxClicks
            /\ Commit(m)
    /\ last' = [op |-> "tick", from |-> current_state, timed_out |-> is_time_up(Self)]

\* run, one iteration with a frame: the vision step, the store into
\* image_data and, in fast mode, the call of on_process.
RunFrame ==
    \E data \in {store_data(f, origin) : f \in Frames, origin \in Origins} :
        /\ image_data' = data
        /\ IF fast
           THEN Tick(image_data')
           ELSE /\ out' = <<>>
                /\ last' = [op |-> "frame", from |-> current_state, timed_out |-> FALSE]
                /\ UNCHANGED <<current_state, end_time, fish_striked,
                               fish_caught, clicks_sent, entered, clicked, held>>
        /\ UNCHANGED <<vvars, fast, cvars>>

\* thread_run, one iteration: on_process against a copy of image_data.
ThreadTick ==
    /\ ~fast
    /\ Tick(image_data)
    /\ UNCHANGED <<vvars, fast, image_data, cvars>>

\* The wall clock advances by a second between two steps.
AdvanceTime ==
    /\ end_time > -MaxLate
    /\ end_time' = end_time - 1
    /\ entered' = entered - 1
    /\ clicked' = Older(clicked, 1)
    /\ out' = <<>>
    /\ last' = [op |-> "clock", from |-> current_state, timed_out |-> FALSE]
    /\ UNCHANGED <<vvars, fast, image_data, current_state, fish_striked,
                   fish_caught, clicks_sent, held, cvars>>

Next == RunFrame \/ ThreadTick \/ AdvanceTime

Spec == Init /\ [][Next]_vars

\* Spec with the scheduling the claims about progress assume: the clock keeps
\* advancing and on_process keeps being called (by thread_run, which loops
\* without a pause, or in fast mode by the frame loop after every frame).
SpecLive ==
    Spec /\ WF_vars(AdvanceTime) /\ WF_vars(ThreadTick) /\ WF_vars(RunFrame)

\* ------------------------------------------- run and thread_run by statement

\* The print of the final statistics, recorded with the handler calls.
PrintStats == [call |-> "print", key |-> "Final stats", x2 |-> 0, y2 |-> 0]

\* A statement that is no call of on_process and sends nothing.
Quiet ==
    /\ out' = <<>>
    /\ last' = [op |-> "step", from |-> current_state, timed_out |-> FALSE]

bot_vars == <<current_state, end_time, fish_striked, fish_caught, clicks_sent,
              entered, clicked, held>>

\* Mutant: the failure of get_screenshot is reported and the loop goes on.
R_Capture_retries ==
    /\ pc_run = "capture"
    /\ \/ /\ pc_run' = "capture"
          /\ out' = <<PrintStats>>
          /\ last' = [op |-> "step", from |-> current_state, timed_out |-> FALSE]
       \/ /\ frames < MaxFrames
          /\ pc_run' = "vision"
          /\ Quiet
    /\ UNCHANGED <<vvars, fast, image_data, bot_vars, run_bot, data_lock, result,
                   pc_thread, tick_data, frames, slot_run, data_run>>

\* run: get_screenshot raises (the statistics are printed and run returns),
\* hands back no frame, or hands back a frame.
R_Capture ==
    /\ pc_run = "capture"
    /\ \/ /\ pc_run' = "done"
          /\ out' = <<PrintStats>>
          /\ last' = [op |-> "step", from |-> current_state, timed_out |-> FALSE]
       \/ /\ pc_run' = "capture"
          /\ Quiet
       \/ /\ frames < MaxFrames
          /\ pc_run' = "vision"
          /\ Quiet
    /\ UNCHANGED <<vvars, fast, image_data, bot_vars, run_bot, data_lock, result,
                   pc_thread, tick_data, frames, slot_run, data_run>>

\* The frames of the statement-level runs: one without the game and one with
\* a fish that qualifies for a click.
StepFrames == {f \in Frames : f.px_count = 157 /\ f.det = Box(1, 3, 2, 1)}

\* Mutant: the lock is acquired in fast mode too.
R_Vision_acquires_in_fast ==
    /\ pc_run = "vision"
    /\ \E data \in {store_data(f, origin) : f \in StepFrames, origin \in Origins} :
            result' = data
    /\ frames' = frames + 1
    /\ pc_run' = "acquire"
    /\ Quiet
    /\ UNCHANGED <<vvars, fast, image_data, bot_vars, run_bot, data_lock,
                   pc_thread, tick_data, slot_run, data_run>>

\* run: get_fishing_state on the frame; its result is held in locals.
R_Vision ==
    /\ pc_run = "vision"
    /\ \E data \in {store_data(f, origin) : f \in StepFrames, origin \in Origins} :
            result' = data
    /\ frames' = frames + 1
    /\ pc_run' = IF fast THEN "store" ELSE "acquire"
    /\ Quiet
    /\ UNCHANGED <<vvars, fast, image_data, bot_vars, run_bot, data_lock,
                   pc_thread, tick_data, slot_run, data_run>>

\* run: data_lock.acquire() when not in fast mode.
R_Acquire ==
    /\ pc_run = "acquire"
    /\ data_lock = "free"
    /\ data_lock' = "run"
    /\ pc_run' = "store"
    /\ Quiet
    /\ UNCHANGED <<vvars, fast, image_data, bot_vars, run_bot, result,
                   pc_thread, tick_data, frames, slot_run, data_run>>

\* Mutant: the store keeps the game_on of the dict it replaces.
R_Store_mixed ==
    /\ pc_run = "store"
    /\ image_data' = [result EXCEPT !.game_on = image_data.game_on]
    /\ slot_run' = frames
    /\ result' = default_data
    /\ pc_run' = IF fast THEN "tick" ELSE "release"
    /\ Quiet
    /\ UNCHANGED <<vvars, fast, bot_vars, run_bot, data_lock,
                   pc_thread, tick_data, frames, data_run>>

\* run: the store of the new dict into image_data; the locals that held the
\* result are not read again before the next frame overwrites them.
R_Store ==
    /\ pc_run = "store"
    /\ image_data' = result
    /\ slot_run' = frames
    /\ result' = default_data
    /\ pc_run' = IF fast THEN "tick" ELSE "release"
    /\ Quiet
    /\ UNCHANGED <<vvars, fast, bot_vars, run_bot, data_lock,
                   pc_thread, tick_data, frames, data_run>>

\* Mutant: on_process is called twice for a frame.
R_FastTick_again ==
    /\ pc_run = "tick"
    /\ data_run' = slot_run
    /\ Tick(image_data)
    /\ pc_run' \in {"tick", "capture"}
    /\ UNCHANGED <<vvars, fast, image_data, run_bot, data_lock, result,
                   pc_thread, tick_data, frames, slot_run>>

\* run in fast mode: on_process, which reads image_data itself, and continue.
R_FastTick ==
    /\ pc_run = "tick"
    /\ data_run' = slot_run
    /\ Tick(image_data)
    /\ pc_run' = "capture"
    /\ UNCHANGED <<vvars, fast, image_data, run_bot, data_lock, result,
                   pc_thread, tick_data, frames, slot_run>>

\* run: data_lock.release().
R_Release ==
    /\ pc_run = "release"
    /\ data_lock' = "free"
    /\ pc_run' = "show"
    /\ Quiet
    /\ UNCHANGED <<vvars, fast, image_data, bot_vars, run_bot, result,
                   pc_thread, tick_data, frames, slot_run, data_run>>

\* run: the frame is shown and waitKey polled; ESC flips __run_bot.
R_Show ==
    /\ pc_run = "show"
    /\ \E esc \in BOOLEAN : run_bot' = IF esc THEN ~run_bot ELSE run_bot
    /\ pc_run' = "capture"
    /\ Quiet
    /\ UNCHANGED <<vvars, fast, image_data, bot_vars, data_lock, result,
                   pc_thread, tick_data, frames, slot_run, data_run>>

\* main: run has returned, main returns and the daemon thread dies with the
\* process, wherever it is; the lock goes with the process.
Exit ==
    /\ pc_run = "done"
    /\ pc_run' = "exited"
    /\ pc_thread' = IF fast THEN "none" ELSE "killed"
    /\ data_lock' = "free"
    /\ Quiet
    /\ UNCHANGED <<vvars, fast, image_data, bot_vars, run_bot, result,
                   tick_data, frames, slot_run, data_run>>

\* on_process on the thread: data_lock.acquire().
T_Acquire ==
    /\ pc_thread = "acquire"
    /\ data_lock = "free"
    /\ data_lock' = "thread"
    /\ pc_thread' = "copy"
    /\ Quiet
    /\ UNCHANGED <<vvars, fast, image_data, bot_vars, run_bot, pc_run, result,
                   tick_data, frames, slot_run, data_run>>

\* Mutant: the action is run before the lock is released.
T_Copy_keeps_lock ==
    /\ pc_thread = "copy"
    /\ tick_data' = image_data
    /\ data_run' = slot_run
    /\ pc_thread' = "act"
    /\ Quiet
    /\ UNCHANGED <<vvars, fast, image_data, bot_vars, run_bot, data_lock, pc_run,
                   result, frames, slot_run>>

\* on_process on the thread: data = self.image_data.copy().
T_Copy ==
    /\ pc_thread = "copy"
    /\ tick_data' = image_data
    /\ data_run' = slot_run
    /\ pc_thread' = "release"
    /\ Quiet
    /\ UNCHANGED <<vvars, fast, image_data, bot_vars, run_bot, data_lock, pc_run,
                   result, frames, slot_run>>

\* on_process on the thread: data_lock.release().
T_Release ==
    /\ pc_thread = "release"
    /\ data_lock' = "free"
    /\ pc_thread' = "act"
    /\ Quiet
    /\ UNCHANGED <<vvars, fast, image_data, bot_vars, run_bot, pc_run, result,
                   tick_data, frames, slot_run, data_run>>

\* Mutant: the action reads image_data, not the copy.
T_Act_reads_slot ==
    /\ pc_thread = "act"
    /\ Tick(image_data)
    /\ tick_data' = default_data
    /\ pc_thread' = "acquire"
    /\ UNCHANGED <<vvars, fast, image_data, run_bot, data_lock, pc_run, result,
                   frames, slot_run, data_run>>

\* on_process on the thread: the deadline check and the action on the copy,
\* a local that ends with the call.
T_Act ==
    /\ pc_thread = "act"
    /\ Tick(tick_data)
    /\ tick_data' = default_data
    /\ pc_thread' = "acquire"
    /\ UNCHANGED <<vvars, fast, image_data, run_bot, data_lock, pc_run, result,
                   frames, slot_run, data_run>>

NextSteps ==
    \/ R_Capture \/ R_Vision \/ R_Acquire \/ R_Store \/ R_FastTick
    \/ R_Release \/ R_Show \/ Exit
    \/ T_Acquire \/ T_Copy \/ T_Release \/ T_Act
    \/ AdvanceTime

SpecSteps == Init /\ [][NextSteps]_vars

\* ------------------------------------------ a handler call that raises

\* The call of on_process on `data` reaches a call of the interaction handler.
CallsHandler(data) ==
    \E d \in Delays : Len(on_process([Self EXCEPT !.out = <<>>], data, d).out) > 0

\* thread_run: the first handler call of on_process raises; nothing catches it
\* in on_process or thread_run, so the thread ends; run is not told.
T_Raise ==
    /\ pc_thread = "act"
    /\ CallsHandler(tick_data)
    /\ pc_thread' = "dead"
    /\ tick_data' = default_data
    /\ out' = <<>>
    /\ last' = [op |-> "raise", from |-> current_state, timed_out |-> is_time_up(Self)]
    /\ UNCHANGED <<vvars, fast, image_data, bot_vars, run_bot, data_lock, pc_run,
                   result, frames, slot_run, data_run>>

\* run in fast mode: the first handler call of on_process raises; the call is
\* outside the try of run, so run and main end with the exception.
R_Raise ==
    /\ pc_run = "tick"
    /\ CallsHandler(image_data)
    /\ pc_run' = "crashed"
    /\ out' = <<>>
    /\ last' = [op |-> "raise", from |-> current_state, timed_out |-> is_time_up(Self)]
    /\ UNCHANGED <<vvars, fast, image_data, bot_vars, run_bot, data_lock, result,
                   pc_thread, tick_data, frames, slot_run, data_run>>

NextFaults ==
    \/ R_Capture \/ R_Vision \/ R_Acquire \/ R_Store \/ R_FastTick
    \/ R_Release \/ R_Show \/ Exit
    \/ T_Acquire \/ T_Copy \/ T_Release \/ T_Act
    \/ AdvanceTime
    \/ T_Raise \/ R_Raise

SpecFaults == Init /\ [][NextFaults]_vars

\* ------------------------------------------------- the vision, frame by frame

\* Scale factors and the resize factor are hundredths.  The scale of a search
\* is the exact fraction <<num, den>> that np.linspace divides out.
UNIT == 100

\* The size of the captured frame: width, height.
ImageSize == <<16, 12>>

\* The arguments of FishingVision.__init__ and the size of the template read
\* by it.
Configs ==
    [tw : {8, 16, 20}, th : {8},
     low : {50, 100}, high : {100}, n : 1..MaxScales,
     resize_factor : {50, 100, 150},
     debug : BOOLEAN]

\* The correlations cv2.matchTemplate can reach, in hundredths.
Scores == {69, 70, 71}

\* A captured frame: the best correlation at each scale tried, the number of
\* pixels of the crop inside the grab colour range and the outcome of
\* detect_object_color on the crop.
FramesOf(cfg) ==
    [score : [1..cfg.n -> Scores],
     px_count : {156, 157},
     det : {NotFound, Box(1, 3, 2, 1)}]

\* cv2.minMaxLoc: where the best match of the i-th search lies in the resized
\* frame.
maxLoc(i) == <<2 * i, i>>

\* Mutant: the scales are tried from the lowest to the highest.
scale_at_ascending(cfg, i) ==
    IF cfg.n = 1
    THEN <<cfg.low, UNIT>>
    ELSE <<cfg.low * (cfg.n - 1) + (i - 1) * (cfg.high - cfg.low),
           UNIT * (cfg.n - 1)>>

\* np.linspace(low_scale, high_scale, num_searches)[::-1], the i-th scale
\* tried (i = 1 is the highest).
scale_at(cfg, i) ==
    IF cfg.n = 1
    THEN <<cfg.low, UNIT>>
    ELSE <<cfg.low * (cfg.n - 1) + (cfg.n - i) * (cfg.high - cfg.low),
           UNIT * (cfg.n - 1)>>

\* int(v * scale) and int(v * (1 / scale)).
scaled(v, sc) == (v * sc[1]) \div sc[2]
unscaled(v, sc) == (v * sc[2]) \div sc[1]

\* The sizes get_image_template matches on: both images are resized by
\* resize_factor when it is below 1.
resized_by_factor(v, cfg) ==
    IF cfg.resize_factor < UNIT THEN (v * cfg.resize_factor) \div UNIT ELSE v

\* The resized frame of the i-th search is smaller than the template in a
\* dimension.
too_small(cfg, i) ==
    \/ scaled(resized_by_factor(ImageSize[2], cfg), scale_at(cfg, i))
           < resized_by_factor(cfg.th, cfg)
    \/ scaled(resized_by_factor(ImageSize[1], cfg), scale_at(cfg, i))
           < resized_by_factor(cfg.tw, cfg)

\* The bookkeeping variable `found` before the first match.
None == [is_none |-> TRUE]

\* Mutant: an equal correlation replaces the match kept so far.
new_maximum_or_equal(maxVal, found) == found.is_none \/ maxVal >= found.corr

\* found is None or maxVal > found[0].
new_maximum(maxVal, found) == found.is_none \/ maxVal > found.corr

\* The for loop of get_image_template from the i-th search on.
RECURSIVE search(_, _, _, _)
search(cfg, fr, i, found) ==
    IF i > cfg.n THEN found
    ELSE IF too_small(cfg, i) THEN found
    ELSE search(cfg, fr, i + 1,
                IF new_maximum(fr.score[i], found)
                THEN [is_none |-> FALSE, corr |-> fr.score[i],
                      maxLoc |-> maxLoc(i), scale |-> scale_at(cfg, i), i |-> i]
                ELSE found)

\* get_image_template: what it raises, or the tuple it returns.
get_image_template(cfg, fr) ==
    IF cfg.resize_factor > UNIT
    THEN [raised |-> "ValueError"]
    ELSE LET found == search(cfg, fr, 1, None)
         IN  IF found.is_none
             THEN [raised |-> "TypeError"]
             ELSE LET startX == unscaled(found.maxLoc[1], found.scale)
                      startY == unscaled(found.maxLoc[2], found.scale)
                  IN  [raised |-> "",
                       x |-> IF cfg.resize_factor < UNIT
                             THEN (startX * UNIT) \div cfg.resize_factor
                             ELSE startX,
                       y |-> IF cfg.resize_factor < UNIT
                             THEN (startY * UNIT) \div cfg.resize_factor
                             ELSE startY,
                       width |-> unscaled(cfg.tw, found.scale),
                       height |-> unscaled(cfg.th, found.scale),
                       corr |-> found.corr,
                       scale |-> found.scale]

\* The crop after the debug block has coloured the pixels of the circle mask
\* in dbg_fish_image, which is img_cropped itself when no fish was found: the
\* colours (0, 155, 0) and (0, 0, 155) lie outside the grab and the fish range.
Painted(c) ==
    IF c.px_count > 0 THEN [px_count |-> 0, det |-> NotFound] ELSE c

\* Mutant: the debug block runs before the colour detections.
detector_input_after_debug(c, debug) == IF debug THEN Painted(c) ELSE c

\* get_fishing_state: the content of img_cropped when the two colour
\* detections read it, which is before the debug block.
detector_input(c, debug) == c

\* FishingVision.get_fishing_state with the template search and the debug
\* image: what it raises or returns, the calls it makes and self.__dbg_image.
vision_run(cfg, fr) ==
    LET t == get_image_template(cfg, fr)
    IN  IF t.raised # ""
        THEN [raised |-> t.raised]
        ELSE LET seen == detector_input([px_count |-> fr.px_count, det |-> fr.det],
                                        cfg.debug)
                 f == [mx |-> t.x, my |-> t.y, corr |-> t.corr,
                       px_count |-> seen.px_count, det |-> seen.det]
                 game_on == t.corr > GAME_THRESHOLD
                 fish == get_fish_pos(f)
             IN  [raised |-> "",
                  template |-> t,
                  f |-> f,
                  ret |-> get_fishing_state(f),
                  calls |-> IF game_on
                            THEN <<"get_image_template", "inRange", "detect_object_color">>
                            ELSE <<"get_image_template">>,
                  fishable_confidence |->
                      IF game_on THEN get_circle_fishable_px_count(f) ELSE 0,
                  crop_after |->
                      IF cfg.debug /\ game_on /\ ~fish.found
                      THEN Painted([px_count |-> fr.px_count, det |-> fr.det])
                      ELSE [px_count |-> fr.px_count, det |-> fr.det],
                  dbg_image |->
                      IF cfg.debug
                      THEN [is_none |-> FALSE,
                            front |-> IF ~game_on \/ ~fish.found THEN "img_cropped"
                                      ELSE "res"]
                      ELSE None]

\* FishingVision.get_debug_frame.
get_debug_frame(cfg, dbg_image) == IF cfg.debug THEN dbg_image ELSE None

NoOut == [status |-> "none"]

bot_all == <<fast, image_data, bot_vars, out, last, cvars>>

\* FishingBot.__init__ builds FishingVision, which stores its arguments and
\* reads the template; nothing is checked.
V_Construct ==
    /\ v_pc = "new"
    /\ v_pc' = "capture"
    /\ UNCHANGED <<v_cfg, v_in, v_out, bot_all>>

\* run: get_screenshot hands back a frame and the origin of the window.
V_Capture ==
    /\ v_pc = "capture"
    /\ v_in' \in FramesOf(v_cfg)
    /\ v_out' = NoOut
    /\ v_pc' = "frame"
    /\ UNCHANGED <<v_cfg, bot_all>>

\* run: get_fishing_state on the frame, outside the try of run, and the dict
\* built for image_data; the debug frame is fetched for the window.
V_Process ==
    /\ v_pc = "frame"
    /\ LET r == vision_run(v_cfg, v_in)
       IN  IF r.raised # ""
           THEN /\ v_out' = [status |-> "raised", raised |-> r.raised]
                /\ v_pc' = "crashed"
           ELSE /\ v_out' = [status |-> "stored",
                             run |-> r,
                             data |-> CHOOSE d \in {store_data(r.f, origin) :
                                                       origin \in Origins} : TRUE,
                             debug_frame |-> get_debug_frame(v_cfg, r.dbg_image)]
                /\ v_pc' = "capture"
    /\ UNCHANGED <<v_cfg, v_in, bot_all>>

NextVision == V_Construct \/ V_Capture \/ V_Process

InitVision ==
    /\ fast = TRUE
    /\ image_data = default_data
    /\ current_state = "PULLING_ROD"
    /\ end_time = time_out_delay("PULLING_ROD")
    /\ fish_striked = 0
    /\ fish_caught = 0
    /\ clicks_sent = 0
    /\ entered = 0
    /\ out = <<>>
    /\ last = [op |-> "init", from |-> "PULLING_ROD", timed_out |-> FALSE]
    /\ clicked = -ClickHorizon
    /\ held = {}
    /\ run_bot = TRUE
    /\ data_lock = "free"
    /\ pc_run = "capture"
    /\ result = default_data
    /\ pc_thread = "none"
    /\ tick_data = default_data
    /\ frames = 0
    /\ slot_run = 0
    /\ data_run = 0
    /\ v_pc = "new"
    /\ v_cfg \in Configs
    /\ v_in = <<>>
    /\ v_out = NoOut

SpecVision == InitVision /\ [][NextVision]_vars

TypeOK ==
    /\ fast \in BOOLEAN
    /\ current_state \in States
    /\ end_time \in -MaxLate..SEARCHING_FISH_TIMEOUT
    /\ fish_striked \in Nat /\ fish_caught \in Nat /\ clicks_sent \in Nat
    /\ entered \in Int /\ entered <= 0
    /\ Len(out) <= 3
    /\ held \subseteq {"mouse_left", "1", "space"}

\* ------------------------------------------------------------- properties

\* A step that is one call of on_process; the snapshot it is given is
\* image_data' (stored by the same step in fast mode, unchanged otherwise).
TickStep == last'.op = "tick"

\* The deadline of the current state has passed: State.is_time_up at the
\* start of a step, where the clock reads 0.
PastDeadline == 0 > end_time

Qualifies(data) == data.game_on /\ data.fish_detectable /\ data.fishable

\* Every snapshot the frame loop can hand to a tick.
AllData == {default_data} \cup {store_data(f, origin) : f \in Frames, origin \in Origins}

CountersUnchanged ==
    /\ fish_striked' = fish_striked
    /\ fish_caught' = fish_caught
    /\ clicks_sent' = clicks_sent

\* C1: exactly one state is current and it is one of PULLING_ROD,
\* SEARCHING_FISH, WAIT_AFTER_CLICK; the machine starts in PULLING_ROD; no
\* state is terminal: every deadline is a finite time, and once it has passed
\* a call of on_process that leaves the state is possible.
C1_OneCurrentState ==
    /\ current_state \in States
    /\ Cardinality({s \in States : s = current_state}) = 1
    /\ last.op = "init" => current_state = "PULLING_ROD"
    /\ end_time \in Int
    /\ PastDeadline => ENABLED (Next /\ TickStep /\ current_state' # current_state)

\* C1 witness: the machine is back in PULLING_ROD after a click, so all three
\* states have been entered and left.
C1_Witness ==
    /\ last.op = "tick" /\ last.from = "SEARCHING_FISH"
    /\ current_state = "PULLING_ROD"
    /\ clicks_sent >= 1

\* C2: a tick in SEARCHING_FISH before the deadline whose snapshot has game_on,
\* fish_detectable and fishable all true makes exactly two calls on the
\* handler, a mouse move to the centre (x + w/2, y + h/2) of the snapshot's
\* box and one left click, adds 1 to fish_striked and to clicks_sent, and
\* changes the state to WAIT_AFTER_CLICK.
C2_QualifyingTickClicks ==
    [][(/\ TickStep
        /\ current_state = "SEARCHING_FISH"
        /\ ~PastDeadline
        /\ Qualifies(image_data'))
       => /\ out' = <<MouseMove(2 * image_data'.x + image_data'.w,
                                2 * image_data'.y + image_data'.h),
                      LeftClick>>
          /\ fish_striked' = fish_striked + 1
          /\ clicks_sent' = clicks_sent + 1
          /\ fish_caught' = fish_caught
          /\ current_state' = "WAIT_AFTER_CLICK"]_vars

\* C2 witness: a qualifying tick in SEARCHING_FISH has just clicked.
C2_Witness ==
    /\ last.op = "tick" /\ last.from = "SEARCHING_FISH" /\ ~last.timed_out
    /\ Qualifies(image_data)
    /\ current_state = "WAIT_AFTER_CLICK"
    /\ Len(out) = 2
    /\ fish_striked = 2

\* What a tick in SEARCHING_FISH does when its snapshot has game_on false.
AbortStep ==
    (/\ TickStep
     /\ current_state = "SEARCHING_FISH"
     /\ ~image_data'.game_on)
    => /\ current_state' = "PULLING_ROD"
       /\ out' = <<>>
       /\ clicks_sent' = clicks_sent
       /\ fish_striked' = 0
       /\ fish_striked < STRIKES_FOR_CATCH => fish_caught' = fish_caught
       /\ fish_striked >= STRIKES_FOR_CATCH => fish_caught' = fish_caught + 1

\* The same for every value of the two other flags, on the code of on_process.
AbortWhateverFlags ==
    current_state = "SEARCHING_FISH" =>
        \A fishable \in BOOLEAN, fish_detectable \in BOOLEAN, d \in Delays :
            LET data == [image_data EXCEPT !.game_on = FALSE,
                                           !.fishable = fishable,
                                           !.fish_detectable = fish_detectable]
                m == on_process([Self EXCEPT !.out = <<>>], data, d)
            IN  /\ m.current_state = "PULLING_ROD"
                /\ m.out = <<>>
                /\ m.clicks_sent = clicks_sent
                /\ m.fish_caught =
                       IF fish_striked >= STRIKES_FOR_CATCH
                       THEN fish_caught + 1 ELSE fish_caught

\* C3: abort path: a tick in SEARCHING_FISH with a snapshot whose game_on is
\* false changes the state to PULLING_ROD at once and sends no click, whatever
\* fishable and fish_detectable are; the check on entering PULLING_ROD sees
\* fish_striked as the clicks left it, and below 3 fish_caught is not
\* incremented.
C3_AbortPath == [][AbortStep]_vars /\ []AbortWhateverFlags

\* C3 witness: an abort before the deadline, after two clicks and no catch.
C3_Witness ==
    /\ last.op = "tick" /\ last.from = "SEARCHING_FISH" /\ ~last.timed_out
    /\ ~image_data.game_on
    /\ current_state = "PULLING_ROD"
    /\ clicks_sent = 2 /\ fish_caught = 0 /\ fish_striked = 0

\* C4: episode credit.  A qualifying tick adds one strike and no catch; the
\* timeout of WAIT_AFTER_CLICK returns to SEARCHING_FISH with the strikes and
\* catches as they are; the timeout of SEARCHING_FISH with three strikes adds
\* exactly one catch and resets the strikes.  From the start (no strike, no
\* catch), three clicks followed by that timeout leave fish_caught = 1.
C4_EpisodeCredit ==
    [][/\ (TickStep /\ current_state = "SEARCHING_FISH" /\ ~PastDeadline
             /\ Qualifies(image_data'))
          => (fish_striked' = fish_striked + 1 /\ fish_caught' = fish_caught)
       /\ (TickStep /\ current_state = "WAIT_AFTER_CLICK" /\ PastDeadline)
          => /\ current_state' = "SEARCHING_FISH"
             /\ fish_striked' = fish_striked
             /\ fish_caught' = fish_caught
       /\ (TickStep /\ current_state = "SEARCHING_FISH" /\ PastDeadline
             /\ fish_striked = STRIKES_FOR_CATCH)
          => /\ current_state' = "PULLING_ROD"
             /\ fish_caught' = fish_caught + 1
             /\ fish_striked' = 0
       /\ (TickStep /\ current_state = "SEARCHING_FISH" /\ PastDeadline
             /\ fish_striked = STRIKES_FOR_CATCH /\ clicks_sent = STRIKES_FOR_CATCH)
          => (fish_caught = 0 /\ fish_caught' = 1)]_vars

\* C4 witness: three clicks in all, then the timeout of SEARCHING_FISH: one catch.
C4_Witness ==
    /\ last.op = "tick" /\ last.from = "SEARCHING_FISH" /\ last.timed_out
    /\ current_state = "PULLING_ROD"
    /\ clicks_sent = 3 /\ fish_caught = 1 /\ fish_striked = 0

\* C5: fish_striked is 0 right after every transition into PULLING_ROD (and
\* as long as PULLING_ROD is current), and it grows only by a tick taken while
\* SEARCHING_FISH is current, by one.
C5_StrikesResetAndCounted ==
    /\ [](current_state = "PULLING_ROD" => fish_striked = 0)
    /\ [][/\ (current_state # "PULLING_ROD" /\ current_state' = "PULLING_ROD")
             => fish_striked' = 0
          /\ fish_striked' > fish_striked
             => /\ TickStep
                /\ current_state = "SEARCHING_FISH"
                /\ fish_striked' = fish_striked + 1]_vars

\* C5 witness: PULLING_ROD entered from SEARCHING_FISH after one click that
\* earned no catch: the strike has been reset.
C5_Witness ==
    /\ last.op = "tick" /\ last.from = "SEARCHING_FISH"
    /\ current_state = "PULLING_ROD"
    /\ clicks_sent = 1 /\ fish_caught = 0 /\ fish_striked = 0

\* A step that enters PULLING_ROD (no step goes from PULLING_ROD to itself).
EntersPullingRod == current_state # "PULLING_ROD" /\ current_state' = "PULLING_ROD"

\* C6: fish_caught changes only on a transition into PULLING_ROD; on such a
\* transition it grows by exactly 1 if fish_striked >= 3 at that moment and is
\* unchanged otherwise.
C6_CaughtOnlyOnEnteringPullingRod ==
    [][/\ fish_caught' # fish_caught => (TickStep /\ EntersPullingRod)
       /\ EntersPullingRod
          => fish_caught' = IF fish_striked >= STRIKES_FOR_CATCH
                            THEN fish_caught + 1 ELSE fish_caught]_vars

\* C6 witness: PULLING_ROD entered by an abort with at least three strikes.
C6_Witness ==
    /\ last.op = "tick" /\ last.from = "SEARCHING_FISH" /\ ~last.timed_out
    /\ current_state = "PULLING_ROD"
    /\ fish_caught = 1 /\ clicks_sent >= 3

\* C7 as claimed: the timeout of SEARCHING_FISH changes the state to
\* PULLING_ROD and never increments fish_caught.
C7_TimeoutNeverCredits ==
    [][(TickStep /\ current_state = "SEARCHING_FISH" /\ PastDeadline)
       => (current_state' = "PULLING_ROD" /\ fish_caught' = fish_caught)]_vars

\* C7 amended: the timeout of SEARCHING_FISH changes the state to PULLING_ROD
\* and sends nothing; fish_caught is unchanged when fish_striked < 3 at that
\* moment and grows by exactly 1 when fish_striked >= 3.
C7_TimeoutCreditsOnlyThreeStrikes ==
    [][(TickStep /\ current_state = "SEARCHING_FISH" /\ PastDeadline)
       => /\ current_state' = "PULLING_ROD"
          /\ out' = <<>>
          /\ clicks_sent' = clicks_sent
          /\ fish_striked' = 0
          /\ fish_striked < STRIKES_FOR_CATCH => fish_caught' = fish_caught
          /\ fish_striked >= STRIKES_FOR_CATCH => fish_caught' = fish_caught + 1]_vars

\* C7 witness: a timeout of SEARCHING_FISH after two clicks earns no catch.
C7_Witness ==
    /\ last.op = "tick" /\ last.from = "SEARCHING_FISH" /\ last.timed_out
    /\ current_state = "PULLING_ROD"
    /\ clicks_sent = 2 /\ fish_caught = 0

\* A tick that changes nothing of the machine and sends nothing.
NoOpTick ==
    /\ current_state' = current_state
    /\ CountersUnchanged
    /\ out' = <<>>
    /\ end_time' = end_time
    /\ entered' = entered

\* C8 as claimed: a tick in SEARCHING_FISH whose snapshot does not have
\* fish_detectable and fishable both true leaves the machine in
\* SEARCHING_FISH with the counters unchanged and no click.
C8_NoOpWithoutBothFlags ==
    [][(/\ TickStep
        /\ current_state = "SEARCHING_FISH"
        /\ ~(image_data'.fish_detectable /\ image_data'.fishable))
       => NoOpTick]_vars

\* The second of two ticks against the same snapshot, on the code of on_process.
SecondTickNoOp ==
    (current_state = "SEARCHING_FISH" /\ ~PastDeadline) =>
        \A data \in AllData, d1 \in Delays, d2 \in Delays :
            (data.game_on /\ ~(data.fish_detectable /\ data.fishable)) =>
                LET m0 == [Self EXCEPT !.out = <<>>]
                    m1 == on_process(m0, data, d1)
                    m2 == on_process([m1 EXCEPT !.out = <<>>], data, d2)
                IN  m1 = m0 /\ m2 = m0

\* C8 amended: a tick in SEARCHING_FISH before the deadline whose snapshot has
\* game_on true and does not have fish_detectable and fishable both true is a
\* no-op: state, deadline and counters are unchanged and nothing is sent; so
\* is a second tick against the same snapshot.
C8_NoOpWhileGameOn ==
    /\ [][(/\ TickStep
           /\ current_state = "SEARCHING_FISH"
           /\ ~PastDeadline
           /\ image_data'.game_on
           /\ ~(image_data'.fish_detectable /\ image_data'.fishable))
          => NoOpTick]_vars
    /\ []SecondTickNoOp

\* C8 witness: a no-op tick in SEARCHING_FISH, fishable without a fish in sight.
C8_Witness ==
    /\ last.op = "tick" /\ last.from = "SEARCHING_FISH" /\ ~last.timed_out
    /\ image_data.game_on /\ image_data.fishable /\ ~image_data.fish_detectable
    /\ current_state = "SEARCHING_FISH"
    /\ fish_striked = 1

\* C9: every tick checks the deadline first and runs exactly one of the two
\* actions of the current state.  Past the deadline only the timeout action
\* runs (no click even for a qualifying snapshot, no reaction to game_on); up
\* to and including the deadline only the tick action runs (no key press, the
\* cool-down is not left).  The keys of the timeout action of PULLING_ROD are
\* pressed only by a tick that finds PULLING_ROD current and past its deadline.
C9_DeadlineCheckedFirst ==
    [][TickStep =>
        /\ (PastDeadline /\ current_state = "PULLING_ROD")
           => (out' = <<KeyPress("1"), KeyPress("space")>>
               /\ current_state' = "SEARCHING_FISH" /\ entered' < 0)
        /\ (PastDeadline /\ current_state = "SEARCHING_FISH")
           => (out' = <<>> /\ current_state' = "PULLING_ROD"
               /\ clicks_sent' = clicks_sent)
        /\ (PastDeadline /\ current_state = "WAIT_AFTER_CLICK")
           => (out' = <<>> /\ current_state' = "SEARCHING_FISH")
        /\ (~PastDeadline /\ current_state = "PULLING_ROD")
           => (out' = <<>> /\ entered' = (IF image_data'.game_on THEN 0 ELSE entered)
               /\ current_state' = (IF image_data'.game_on
                                    THEN "SEARCHING_FISH" ELSE "PULLING_ROD"))
        /\ (~PastDeadline /\ current_state = "SEARCHING_FISH")
           => current_state' = IF ~image_data'.game_on THEN "PULLING_ROD"
                               ELSE IF Qualifies(image_data')
                                    THEN "WAIT_AFTER_CLICK" ELSE "SEARCHING_FISH"
        /\ (~PastDeadline /\ current_state = "WAIT_AFTER_CLICK")
           => NoOpTick
        /\ (\E i \in 1..Len(out') : out'[i].call = "send_key_press")
           => (PastDeadline /\ current_state = "PULLING_ROD")]_vars

\* C9 witness: the timeout of SEARCHING_FISH ran on a qualifying snapshot,
\* and no click was sent.
C9_Witness ==
    /\ last.op = "tick" /\ last.from = "SEARCHING_FISH" /\ last.timed_out
    /\ Qualifies(image_data)
    /\ current_state = "PULLING_ROD"
    /\ out = <<>>

\* C10: the deadline of the current state is the time of the last entry into
\* it plus its timeout (4, 15, 1 seconds).  Every change of state restarts the
\* deadline of the state entered, at the moment of change_state: the entry is
\* the end of the step, except in the timeout action of PULLING_ROD, which
\* sleeps 1 to 3 seconds more after it.  A tick that does not change the
\* state leaves the deadline as it is.
C10_DeadlineFromLastEntry ==
    /\ [](end_time = entered + time_out_delay(current_state))
    /\ [](time_out_delay("PULLING_ROD") = 4 /\ time_out_delay("SEARCHING_FISH") = 15
          /\ time_out_delay("WAIT_AFTER_CLICK") = 1)
    /\ [][TickStep =>
            /\ current_state' # current_state
               => /\ entered' \in (IF current_state = "PULLING_ROD" /\ PastDeadline
                                   THEN -3..-1 ELSE {0})
                  /\ end_time' = entered' + time_out_delay(current_state')
            /\ current_state' = current_state
               => (end_time' = end_time /\ entered' = entered)]_vars

\* C10 witness: SEARCHING_FISH re-entered by the timeout of WAIT_AFTER_CLICK
\* has its full 15 seconds again.
C10_Witness ==
    /\ last.op = "tick" /\ last.from = "WAIT_AFTER_CLICK" /\ last.timed_out
    /\ current_state = "SEARCHING_FISH"
    /\ entered = 0 /\ end_time = 15

\* A step that sends a click.
ClickStep == \E i \in 1..Len(out') : out'[i] = LeftClick

\* Every snapshot shape: the flags of any snapshot replaced at will.
AnyFlags ==
    {[sd EXCEPT !.game_on = g, !.fishable = f, !.fish_detectable = t] :
        sd \in AllData, g \in BOOLEAN, f \in BOOLEAN, t \in BOOLEAN}

\* WAIT_AFTER_CLICK on the code of on_process, for every snapshot.
CoolDownWhateverSnapshot ==
    current_state = "WAIT_AFTER_CLICK" =>
        \A sd \in AnyFlags, d \in Delays :
            LET m == on_process([Self EXCEPT !.out = <<>>], sd, d)
            IN  /\ m.out = <<>>
                /\ m.clicks_sent = clicks_sent
                /\ m.fish_striked = fish_striked
                /\ m.fish_caught = fish_caught
                /\ m.current_state =
                       IF PastDeadline THEN "SEARCHING_FISH" ELSE "WAIT_AFTER_CLICK"

\* C11: WAIT_AFTER_CLICK is a cool-down: while it is current no tick sends a
\* click or changes a counter, whatever the snapshot; it is left only by its
\* timeout, to SEARCHING_FISH; so a click is sent at least
\* WAIT_AFTER_CLICK_TIMEOUT (1 s) after the click before it.
C11_CoolDown ==
    /\ []CoolDownWhateverSnapshot
    /\ [][/\ (TickStep /\ current_state = "WAIT_AFTER_CLICK")
             => (out' = <<>> /\ CountersUnchanged)
          /\ (current_state = "WAIT_AFTER_CLICK" /\ current_state' # current_state)
             => (TickStep /\ PastDeadline /\ current_state' = "SEARCHING_FISH")
          /\ ClickStep
             => /\ current_state = "SEARCHING_FISH"
                /\ clicks_sent > 0 => clicked <= -WAIT_AFTER_CLICK_TIMEOUT]_vars

\* C11 witness: a second click, two seconds after the first.
C11_Witness ==
    /\ last.op = "tick" /\ last.from = "SEARCHING_FISH"
    /\ current_state = "WAIT_AFTER_CLICK"
    /\ clicks_sent = 2 /\ clicked = 0
    /\ Len(out) = 2

\* C12: the only changes of state are PULLING_ROD -> SEARCHING_FISH (a tick
\* with game_on, at once, or the timeout), SEARCHING_FISH -> PULLING_ROD (a tick
\* with game_on false, or the timeout), SEARCHING_FISH -> WAIT_AFTER_CLICK (a
\* qualifying tick) and WAIT_AFTER_CLICK -> SEARCHING_FISH (the timeout); a tick
\* in PULLING_ROD with game_on false before the deadline changes nothing.
C12_TransitionTable ==
    [][/\ current_state' # current_state
          => /\ TickStep
             /\ <<current_state, current_state'>> \in
                    {<<"PULLING_ROD", "SEARCHING_FISH">>,
                     <<"SEARCHING_FISH", "PULLING_ROD">>,
                     <<"SEARCHING_FISH", "WAIT_AFTER_CLICK">>,
                     <<"WAIT_AFTER_CLICK", "SEARCHING_FISH">>}
             /\ current_state = "PULLING_ROD"
                => (PastDeadline \/ image_data'.game_on)
             /\ (current_state = "SEARCHING_FISH" /\ current_state' = "PULLING_ROD")
                => (PastDeadline \/ ~image_data'.game_on)
             /\ current_state' = "WAIT_AFTER_CLICK"
                => (~PastDeadline /\ Qualifies(image_data'))
             /\ current_state = "WAIT_AFTER_CLICK" => PastDeadline
       /\ (TickStep /\ current_state = "PULLING_ROD" /\ ~PastDeadline
             /\ image_data'.game_on)
          => (current_state' = "SEARCHING_FISH" /\ entered' = 0 /\ out' = <<>>)
       /\ (TickStep /\ current_state = "PULLING_ROD" /\ ~PastDeadline
             /\ ~image_data'.game_on)
          => NoOpTick]_vars

\* C12 witness: a tick with game_on takes PULLING_ROD to SEARCHING_FISH before
\* the deadline, in a later episode.
C12_Witness ==
    /\ last.op = "tick" /\ last.from = "PULLING_ROD" /\ ~last.timed_out
    /\ image_data.game_on
    /\ current_state = "SEARCHING_FISH" /\ entered = 0
    /\ clicks_sent >= 1

\* C13 as claimed: on the timeout of PULLING_ROD the two keys are pressed and
\* both delays have passed when the state changes to SEARCHING_FISH: when the
\* action ends the state has just been entered and its deadline is the full
\* 15 seconds ahead.
C13_TransitionAfterLongDelay ==
    [][(TickStep /\ current_state = "PULLING_ROD" /\ PastDeadline)
       => /\ out' = <<KeyPress("1"), KeyPress("space")>>
          /\ current_state' = "SEARCHING_FISH"
          /\ entered' = 0
          /\ end_time' = SEARCHING_FISH_TIMEOUT]_vars

\* C14: the machine never stalls: while the clock advances and ticks keep
\* coming, every state is left.  The deadline of the current state is never
\* more than its timeout ahead, and the first tick past it leaves the state.
C14_NeverStalls ==
    /\ []<><<current_state' # current_state>>_vars
    /\ [](end_time <= time_out_delay(current_state))
    /\ [][(TickStep /\ PastDeadline) => current_state' # current_state]_vars

\* C14 witness: PULLING_ROD left by its timeout with no game in sight.
C14_Witness ==
    /\ last.op = "tick" /\ last.from = "PULLING_ROD" /\ last.timed_out
    /\ ~image_data.game_on
    /\ current_state = "SEARCHING_FISH"

\* ------------------------------------- properties of the statement-level runs

\* The step is one call of on_process against the snapshot `data`.
TickOn(data) ==
    \E m \in {on_process([Self EXCEPT !.out = <<>>], data, d) : d \in Delays} :
        /\ current_state' = m.current_state
        /\ end_time' = m.end_time - m.now
        /\ fish_striked' = m.fish_striked
        /\ fish_caught' = m.fish_caught
        /\ clicks_sent' = m.clicks_sent
        /\ out' = m.out

\* The snapshots get_fishing_state and the store can produce.
VisionOutputs == {store_data(f, origin) : f \in Frames, origin \in Origins}

\* C15: in concurrent mode data_lock is held only for the store of run and
\* for the copy of on_process: never while a frame is captured, the vision
\* runs, the frame is shown or the state action executes; who waits for the
\* lock waits for a store or a copy only.
C15_LockOnlyForCopy ==
    /\ [](/\ data_lock = "run" => (~fast /\ pc_run \in {"store", "release"})
          /\ data_lock = "thread" => (~fast /\ pc_thread \in {"copy", "release"})
          /\ (pc_run = "acquire" /\ data_lock # "free")
             => pc_thread \in {"copy", "release"}
          /\ (pc_thread = "acquire" /\ data_lock # "free")
             => pc_run \in {"store", "release"})
    /\ [][/\ TickStep => (data_lock # "thread" /\ data_lock' # "thread")
          /\ frames' # frames => (data_lock # "run" /\ data_lock' # "run")
          /\ pc_run \in {"capture", "show"} => data_lock # "run"]_vars

\* C15 witness: the frame loop waits for the lock while the thread copies.
C15_Witness ==
    /\ pc_run = "acquire" /\ data_lock = "thread" /\ pc_thread = "copy"
    /\ frames = MaxFrames

\* C16 as claimed: the snapshot of every tick was produced by a vision run.
C16_EveryTickOnVisionRun == [][TickStep => data_run' >= 1]_vars

\* C16 amended: the snapshot of every tick is whole: it is the dict run starts
\* with (all false, before the first store) or the result of one completed
\* vision run, stored in one piece under the lock and copied in one piece
\* under the lock.
C16_WholeSnapshotOrDefault ==
    /\ [](/\ slot_run = 0 => image_data = default_data
          /\ slot_run >= 1 => image_data \in VisionOutputs
          /\ (~fast /\ pc_thread \in {"release", "act"})
             => /\ data_run = 0 => tick_data = default_data
                /\ data_run >= 1 => tick_data \in VisionOutputs
          /\ data_run <= slot_run /\ slot_run <= frames)
    /\ [][/\ frames' # frames
             => (pc_run = "vision" /\ frames' = frames + 1
                 /\ result' \in VisionOutputs)
          /\ (image_data' # image_data \/ slot_run' # slot_run)
             => /\ pc_run = "store" /\ (~fast => data_lock = "run")
                /\ image_data' = result /\ slot_run' = frames
                /\ slot_run = frames - 1
          /\ (pc_thread = "copy" /\ pc_thread' # "copy" /\ pc_thread' # "killed")
             => /\ data_lock = "thread" /\ pc_run \notin {"store", "release"}
                /\ tick_data' = image_data /\ data_run' = slot_run
          /\ TickStep
             => IF fast THEN TickOn(image_data) /\ data_run' = slot_run
                        ELSE TickOn(tick_data) /\ data_run' = data_run]_vars

\* C16 witness: a tick of the thread on the result of the second vision run.
C16_Witness ==
    /\ ~fast /\ last.op = "tick" /\ data_run = 2
    /\ current_state = "SEARCHING_FISH" /\ last.from = "PULLING_ROD"

\* C17: image_data is one latest-value cell: the copy of a tick is the dict
\* stored last at the moment of the copy and the tick acts on that copy, a
\* store replaces the dict whether it was copied or not, and without a store
\* in between the next copy is the same dict again.
C17_LatestValueCell ==
    /\ [](~fast => (slot_run = frames \/ (slot_run = frames - 1
                                          /\ pc_run \in {"acquire", "store"})))
    /\ [][~fast =>
          /\ (pc_thread = "copy" /\ pc_thread' = "release")
             => (tick_data' = image_data /\ data_run' = slot_run)
          /\ pc_thread # "copy" => data_run' = data_run
          /\ TickStep => (pc_thread = "act" /\ TickOn(tick_data))
          /\ (pc_run = "store" /\ pc_run' # "store")
             => (image_data' = result /\ slot_run' = frames
                 /\ slot_run' = slot_run + 1)
          /\ slot_run' = slot_run => image_data' = image_data]_vars

\* C17 witness: a tick has acted on its copy of the first result while the
\* second was already stored.
C17_Witness ==
    /\ ~fast /\ last.op = "tick" /\ data_run = 1 /\ slot_run = 2
    /\ current_state = "SEARCHING_FISH" /\ last.from = "PULLING_ROD"
    /\ ~image_data.game_on

\* C18: in fast mode capture, vision, store and tick follow one another on one
\* thread: every frame is stored once and ticked once, the tick is on the dict
\* of that frame, there is no second thread and data_lock is never taken.
C18_FastStrictSequence ==
    /\ [](fast =>
            /\ data_lock = "free" /\ pc_thread = "none"
            /\ pc_run \in {"capture", "vision", "done", "exited"}
               => (slot_run = frames /\ data_run = frames)
            /\ pc_run = "store" => (slot_run = frames - 1 /\ data_run = frames - 1)
            /\ pc_run = "tick" => (slot_run = frames /\ data_run = frames - 1)
            /\ pc_run \notin {"acquire", "release", "show"})
    /\ [][fast =>
          /\ TickStep
             => /\ pc_run = "tick" /\ pc_run' = "capture"
                /\ TickOn(image_data)
                /\ data_run' = frames
          /\ (pc_run = "tick" /\ pc_run' # "tick") => TickStep
          /\ (pc_run = "store" /\ pc_run' # "store")
             => (pc_run' = "tick" /\ image_data' = result)]_vars

\* C18 witness: in fast mode the second frame has been stored and ticked.
C18_Witness ==
    /\ fast /\ last.op = "tick" /\ pc_run = "capture"
    /\ frames = 2 /\ data_run = 2
    /\ Len(out) = 2

\* C19 as claimed: once ESC has switched __run_bot off, on_process is not
\* called any more: no tick, click or key press.
C19_StopSignalStops == [][~run_bot => (~TickStep /\ out' \in {<<>>, <<PrintStats>>})]_vars

\* C20: a failure of get_screenshot ends the frame loop for good: the final
\* statistics are printed by that step and by no other, the loop does not
\* hold data_lock, and afterwards it captures, runs the vision and stores no
\* more.
C20_CaptureFailureTerminal ==
    /\ [](pc_run \in {"done", "exited"} => data_lock # "run")
    /\ [][/\ (\E i \in 1..Len(out') : out'[i] = PrintStats)
             <=> (pc_run = "capture" /\ pc_run' = "done")
          /\ (pc_run = "capture" /\ pc_run' = "done")
             => (out' = <<PrintStats>> /\ CountersUnchanged /\ data_lock # "run")
          /\ pc_run \in {"done", "exited"}
             => /\ pc_run' \in {"done", "exited"}
                /\ UNCHANGED <<image_data, slot_run, frames, result>>]_vars

\* C20 witness: get_screenshot has failed after a frame was stored.
C20_Witness ==
    /\ pc_run = "done" /\ out = <<PrintStats>>
    /\ slot_run = 1 /\ frames = 1

\* ------------------------------------ properties of the runs with failures

\* C21 as claimed: a failure inside a tick is surfaced to the frame loop: in
\* fast mode the step that fails ends the loop with the final statistics
\* printed, and once the thread is dead the frame loop stores no snapshot.
C21_TickFailureStopsLoop ==
    /\ [][pc_thread = "dead" => slot_run' = slot_run]_vars
    /\ [][(fast /\ last'.op = "raise")
          => (pc_run' = "done" /\ out' = <<PrintStats>>)]_vars

\* ----------------------------------------- properties of the vision runs

\* A frame has been processed and its dict built.
Stored == v_out.status = "stored"

\* The searches whose resized frame is at least as large as the template in
\* both dimensions.
Fitting(cfg) == {i \in 1..cfg.n : ~too_small(cfg, i)}

\* The fraction a is at least the fraction b.
AtLeast(a, b) == a[1] * b[2] >= b[1] * a[2]

\* The tuple get_image_template returns for the match of the i-th search.
MatchOf(cfg, i) ==
    LET sx == unscaled(maxLoc(i)[1], scale_at(cfg, i))
        sy == unscaled(maxLoc(i)[2], scale_at(cfg, i))
    IN  <<IF cfg.resize_factor < UNIT THEN (sx * UNIT) \div cfg.resize_factor ELSE sx,
          IF cfg.resize_factor < UNIT THEN (sy * UNIT) \div cfg.resize_factor ELSE sy>>

\* C22 as claimed: game_on is false exactly when the correlation is below
\* GAME_THRESHOLD, a correlation equal to it being active.
C22_GateBelowThreshold ==
    Stored => (~v_out.run.ret.game_on <=> v_out.run.template.corr < GAME_THRESHOLD)

\* C22 amended: get_fishing_state returns game_on false exactly when the
\* correlation is not above GAME_THRESHOLD (equal counts as not active); then
\* fishable and fish_detectable are false, x, y, w, h are 0 and neither colour
\* detection is called, whatever the crop contains.
C22_GateShortCircuit ==
    Stored =>
        LET r == v_out.run
        IN  /\ ~r.ret.game_on <=> r.template.corr <= GAME_THRESHOLD
            /\ ~r.ret.game_on
               => /\ ~r.ret.fishable /\ ~r.ret.fish_detectable
                  /\ r.ret.x = 0 /\ r.ret.y = 0 /\ r.ret.w = 0 /\ r.ret.h = 0
                  /\ r.calls = <<"get_image_template">>
            /\ r.ret.game_on
               => r.calls = <<"get_image_template", "inRange", "detect_object_color">>

\* C22 witness: a correlation equal to the threshold, with a fish in a lit
\* circle, is returned as no game.
C22_Witness ==
    /\ Stored
    /\ v_out.run.template.corr = GAME_THRESHOLD
    /\ v_in.det.found /\ v_in.px_count = 157
    /\ ~v_out.run.ret.game_on /\ ~v_out.run.ret.fishable
    /\ v_out.run.calls = <<"get_image_template">>

\* C23 as claimed: with the game on and no fish found the dict handed to the
\* state machine has fish_detectable false, x, y, w, h all 0 and game_on true.
C23_NotFoundGeometryZero ==
    (Stored /\ v_out.run.ret.game_on /\ ~v_in.det.found)
    => /\ ~v_out.data.fish_detectable /\ v_out.data.game_on
       /\ v_out.data.x = 0 /\ v_out.data.y = 0
       /\ v_out.data.w = 0 /\ v_out.data.h = 0

\* C24: with the game on and a fish found the dict has fish_detectable true,
\* w and h of the bounding box, and x, y the position of the box in the crop
\* plus the corner of the crop (match location + BORDER_OFFSET, and
\* + BORDER_OFFSET_TITLE for y) plus the origin of the capture, each once.
C24_GeometryOffsets ==
    (Stored /\ v_out.run.ret.game_on /\ v_in.det.found)
    => \E origin \in Origins :
        /\ v_out.data.fish_detectable /\ v_out.data.game_on
        /\ v_out.data.w = v_in.det.w /\ v_out.data.h = v_in.det.h
        /\ v_out.data.x
              = v_in.det.x + v_out.run.template.x + BORDER_OFFSET + origin[1]
        /\ v_out.data.y
              = v_in.det.y + v_out.run.template.y + BORDER_OFFSET
                + BORDER_OFFSET_TITLE + origin[2]

\* C24 witness: a fish found in a frame matched at three quarters of its size on images
\* halved by the resize factor.
C24_Witness ==
    /\ Stored /\ v_out.run.ret.game_on /\ v_in.det.found
    /\ v_cfg.resize_factor = 50
    /\ v_out.run.template.scale = <<150, 200>>
    /\ v_out.run.template.x = 10 /\ v_out.run.template.y = 4
    /\ v_out.data.x = 24 /\ v_out.data.y = 47

\* C25 as claimed: the value of the grab detection is the number of mask
\* pixels above zero, and fishable is true iff it exceeds GRAB_THRESHOLD_SUM.
C25_SumIsPixelCount ==
    (Stored /\ v_out.run.ret.game_on)
    => /\ v_out.run.fishable_confidence = v_in.px_count
       /\ v_out.run.ret.fishable <=> v_in.px_count > GRAB_THRESHOLD_SUM

\* C26 as claimed: a frame on which every scale is skipped is stored as a
\* frame without the game and the loop goes on with the next frame.
C26_NoCandidateScaleIsInactive ==
    (v_cfg.resize_factor <= UNIT /\ Fitting(v_cfg) = {} /\ v_out.status # "none")
    => (Stored /\ ~v_out.data.game_on /\ v_pc = "capture")

\* C27 as claimed: with resize_factor above 1 the construction fails: the
\* frame loop is never reached.
C27_UpscalingRejectedAtConstruction ==
    v_cfg.resize_factor > UNIT => (v_pc = "new" /\ v_out.status = "none")

\* C28: get_image_template is one pass of arg-max over the searches it
\* evaluates: correlation, location and scale returned are those of the
\* evaluated search with the highest correlation, and among searches with that
\* correlation the first, which has the highest scale.
C28_ArgMaxFirstSeen ==
    Stored =>
        LET t == v_out.run.template
            evaluated == {i \in 1..v_cfg.n : \A j \in 1..i : ~too_small(v_cfg, j)}
            best == {i \in evaluated :
                        \A j \in evaluated : v_in.score[i] >= v_in.score[j]}
            first == CHOOSE i \in best : \A j \in best : i <= j
        IN  /\ t.corr = v_in.score[first]
            /\ \A j \in evaluated : t.corr >= v_in.score[j]
            /\ t.scale = scale_at(v_cfg, first)
            /\ <<t.x, t.y>> = MatchOf(v_cfg, first)
            /\ \A j \in best : AtLeast(t.scale, scale_at(v_cfg, j))

\* C28 witness: the two highest scales tie and the higher one is returned.
C28_Witness ==
    /\ Stored
    /\ v_cfg.n = 3 /\ v_cfg.low = 50 /\ v_cfg.tw = 8 /\ v_cfg.resize_factor = 100
    /\ v_in.score[1] = 71 /\ v_in.score[2] = 71
    /\ v_out.run.template.scale = <<200, 200>>
    /\ v_out.run.template.corr = 71

C30_DebugSideEffectOnly ==
    /\ Stored
       => LET other == vision_run([v_cfg EXCEPT !.debug = ~@], v_in)
          IN  /\ other.raised = ""
              /\ other.ret = v_out.run.ret
              /\ ~v_cfg.debug
                 => (v_out.run.dbg_image = None /\ v_out.debug_frame = None)
              /\ v_cfg.debug
                 => (~v_out.debug_frame.is_none
                     /\ get_debug_frame([v_cfg EXCEPT !.debug = FALSE],
                                        other.dbg_image) = None)
    /\ v_out.status = "raised"
       => vision_run([v_cfg EXCEPT !.debug = ~@], v_in).raised = v_out.raised

\* C30 witness: in debug mode the circle has been painted into the crop of a
\* frame without a fish, and the tuple says fishable.
C30_Witness ==
    /\ Stored /\ v_cfg.debug
    /\ v_out.run.ret.game_on /\ ~v_in.det.found /\ v_in.px_count = 157
    /\ v_out.run.crop_after.px_count = 0
    /\ v_out.run.ret.fishable
    /\ ~v_out.debug_frame.is_none

\* C31: every actuation call sends its two sub-events in order with a delay
\* between them: a click sends exactly one left-button down followed by
\* exactly one left-button up, a key press sends the key down followed by the
\* key up of the same key, and after every step that sent a click the mouse
\* button is released.
C31_DownThenUp ==
    [][\A i \in 1..Len(out') :
           /\ out'[i].call = "send_mouse_left_click"
                  => /\ sub_events(out'[i]) = <<send_mouse_left_down,
                                                sleep_random_delay,
                                                send_mouse_left_up>>
                     /\ "mouse_left" \notin held'
           /\ out'[i].call = "send_key_press"
                  => /\ sub_events(out'[i]) = <<send_key_down(out'[i].key),
                                                sleep_random_delay,
                                                send_key_up(out'[i].key)>>
                     /\ out'[i].key \notin held']_vars

\* C32: after any sequence of ticks and timeouts fish_caught and clicks_sent
\* never decrease, fish_striked is at most clicks_sent, and three times
\* fish_caught plus fish_striked is at most clicks_sent: every credited catch
\* is backed by at least three clicks of one episode.
C32_CounterInvariants ==
    /\ [](/\ fish_striked <= clicks_sent
          /\ STRIKES_FOR_CATCH * fish_caught + fish_striked <= clicks_sent)
    /\ [][fish_caught' >= fish_caught /\ clicks_sent' >= clicks_sent]_vars

\* A catch was credited for three clicks and a click of the next episode has
\* been counted: the bound is met with equality.
C32_Witness ==
    /\ fish_caught = 1
    /\ fish_striked = 1
    /\ clicks_sent = STRIKES_FOR_CATCH + 1

\* The snapshot the call of on_process of this step is given: the copy made
\* under the lock on the thread, image_data itself in fast mode.
TickSnapshot == IF pc_thread = "act" THEN tick_data ELSE image_data'

\* A step that sends a click is a tick in SEARCHING_FISH, before its deadline,
\* on a snapshot with game_on, fish_detectable and fishable all true.
ClickOnlyOnQualifyingTick ==
    ClickStep => /\ TickStep
                 /\ current_state = "SEARCHING_FISH"
                 /\ ~PastDeadline
                 /\ Qualifies(TickSnapshot)

\* C33: a click is sent only by a tick in SEARCHING_FISH, before its deadline,
\* whose snapshot has game_on, fish_detectable and fishable all true; in both
\* modes and under every interleaving no click is sent before a frame has been
\* processed by the vision: the snapshot of the click is the result of a run
\* of get_fishing_state, never the initial dict, so __curr_time_frame, set
\* before that run, is set when the click reads it.
C33_ClickOnlyAfterFrame ==
    [][/\ ClickOnlyOnQualifyingTick
       /\ ClickStep => /\ frames >= 1
                       /\ data_run' >= 1
                       /\ TickSnapshot # default_data]_vars

\* The thread has sent a click on its copy of the result of the first frame.
C33_Witness ==
    /\ ~fast
    /\ \E i \in 1..Len(out) : out[i] = LeftClick
    /\ last.op = "tick" /\ last.from = "SEARCHING_FISH"
    /\ frames = 1 /\ data_run = 1

\* In fast mode a click is sent by the tick of the frame that was just stored.
C33_WitnessFast ==
    /\ fast
    /\ \E i \in 1..Len(out) : out[i] = LeftClick
    /\ data_run = frames /\ frames >= 1

\* C34: data_lock cannot deadlock or leak.  In concurrent mode every
\* acquisition is followed by its release: the loop that holds the lock can
\* always take its next step, which is the store (run) or the copy
\* (on_process) and then the release, and it does nothing else while it holds
\* it: no capture, empty or failed, no vision run, no tick with its sleeps, no
\* handler call that raises, no end of the loop.  In fast mode the lock is
\* never acquired and never released.
C34_LockNeverLeaks ==
    /\ [](/\ fast => (data_lock = "free" /\ pc_run \notin {"acquire", "release"})
          /\ data_lock = "run" => ENABLED (R_Store \/ R_Release)
          /\ data_lock = "thread" => ENABLED (T_Copy \/ T_Release))
    /\ [][/\ (data_lock # "run" /\ data_lock' = "run")
              => (pc_run = "acquire" /\ pc_run' = "store" /\ data_lock = "free")
          /\ (data_lock # "thread" /\ data_lock' = "thread")
              => (pc_thread = "acquire" /\ pc_thread' = "copy" /\ data_lock = "free")
          /\ (data_lock = "run" /\ pc_run' # pc_run)
              => \/ /\ pc_run = "store" /\ pc_run' = "release"
                    /\ data_lock' = "run" /\ image_data' = result
                 \/ pc_run = "release" /\ pc_run' = "show" /\ data_lock' = "free"
          /\ (data_lock = "thread" /\ pc_thread' # pc_thread)
              => \/ /\ pc_thread = "copy" /\ pc_thread' = "release"
                    /\ data_lock' = "thread" /\ tick_data' = image_data
                 \/ pc_thread = "release" /\ pc_thread' = "act" /\ data_lock' = "free"
                 \/ pc_run = "done" /\ pc_thread' = "killed" /\ data_lock' = "free"
          /\ (data_lock = "run" /\ data_lock' # "run") => pc_run = "release"
          /\ (data_lock = "thread" /\ data_lock' # "thread")
              => (pc_thread = "release" \/ pc_run = "done")
          /\ (TickStep \/ last'.op = "raise" \/ frames' # frames
              \/ (\E i \in 1..Len(out') : out'[i] = PrintStats))
              => (data_lock' = data_lock
                  /\ (pc_run' # pc_run => data_lock # "run")
                  /\ (pc_thread' # pc_thread => data_lock # "thread"))
          /\ (pc_run = "capture" /\ pc_run' \in {"capture", "done"})
              => (data_lock # "run" /\ data_lock' # "run")]_vars

\* The frame loop has released the lock it held for its second store and
\* the thread holds it for a copy.
C34_Witness ==
    /\ ~fast
    /\ pc_run = "show" /\ slot_run = 2
    /\ data_lock = "thread" /\ pc_thread = "copy"

====
